---- MODULE Spec2Model ----
(***************************************************************************)
(* Train dynamics and signalling kernel of rail-traction (src/train_sim).  *)
(*                                                                         *)
(* The kernel routines are pure functions over floating-point numbers.     *)
(* Each routine is modelled as a small state machine: Init draws the       *)
(* arguments of one call from bounded sets and allocates the local arrays, *)
(* one action executes one iteration of the routine's loop, and a final    *)
(* action returns.                                                         *)
(*                                                                         *)
(* Numbers.  The two integrators (acceleration.py, braking.py) are         *)
(* modelled in fixed point: a float x is the integer x * SCALE, products   *)
(* and quotients are rounded down to the next multiple of 1/SCALE (Mul,    *)
(* Div), the square root is the integer square root (Sqrt).  The two       *)
(* interval calculators (slope.py, curve_resistance.py) only add, multiply *)
(* and divide, and are modelled in exact rational arithmetic (a number is  *)
(* a pair <<numerator, denominator>>, NaN is the pair <<0, 0>>).           *)
(* Python arrays are 0-based; they are sequences here, read with At and    *)
(* written with Put, which take the Python index.                          *)
(***************************************************************************)
EXTENDS Integers, Sequences, FiniteSets, TLC

VARIABLES
    call,        \* the routine being executed
    args,        \* the arguments of the call (a record)
    pc,          \* "idle", "construct", "entry", "loop", "return" (after break /
                 \* range exhausted), "done", "error" (an exception left the routine)
    n_steps,     \* integrators: requested step count
    i,           \* integrators: loop index
    s,           \* integrators: distance array
    v,           \* integrators: speed array
    a,           \* integrators: acceleration / deceleration array
    F_trac,      \* acceleration integrator: tractive effort array
    k,           \* interval calculators: sample index
    out,         \* interval calculators: ekv_slope / resistance array
    ret,         \* the returned value ("none" until the routine returns)
    hist,        \* the finished calls of the process: routine, arguments, result
    pending      \* samples or blocks whose entry is still to be computed, when
                 \* the entries are computed in any order

vars == <<call, args, pc, n_steps, i, s, v, a, F_trac, k, out, ret, hist, pending>>

----------------------------------------------------------------------------
(* Bounds of the model *)

\* fixed-point resolution of the integrators: 1/SCALE
SCALE == 100
\* largest simulated distance [m]
MaxDistance == 4
\* largest speed cap v_max [m/s]
MaxVmax == 2
\* largest initial speed of a braking run [m/s]
MaxSpeed == 4
\* largest braking distance [m]
MaxBrkDistance == 8
\* largest breakpoint position of a piecewise profile [m]
MaxPos == 4
\* largest number of breakpoints of a piecewise profile
MaxBreaks == 4
\* largest train length of the interval calculators [m]
MaxTrainLen == 3

----------------------------------------------------------------------------
(* Arithmetic *)

Min(x, y) == IF x <= y THEN x ELSE y

Max(x, y) == IF x >= y THEN x ELSE y

\* x * y of two fixed-point numbers
Mul(x, y) == (x * y) \div SCALE

\* x / y of two fixed-point numbers, y # 0
Div(x, y) == IF y > 0 THEN (x * SCALE) \div y ELSE ((-x) * SCALE) \div (-y)

\* fixed-point value of the decimal literal n / 100
Lit(n) == (n * SCALE) \div 100

\* Python's 0-based arr[idx]
At(arr, idx) == arr[idx + 1]

\* Python's arr[idx] = x
Put(arr, idx, x) == [arr EXCEPT ![idx + 1] = x]

\* np.zeros(n)
Zeros(n) == [j \in 1..n |-> 0]

\* variant of Truncate that drops the terminating index: arr[:i]
TruncateExclusive(arr, idx) == SubSeq(arr, 1, idx)

\* arr[:i+1]
Truncate(arr, idx) == SubSeq(arr, 1, idx + 1)

\* np.clip(x, lo, hi) = minimum(maximum(x, lo), hi)
Clip(x, lo, hi) == Min(Max(x, lo), hi)

\* int(distance // dt) + 1, dt # 0 (floor division, also for a negative dt)
StepCount(distance, dt) ==
    IF dt > 0 THEN (distance \div dt) + 1 ELSE ((-distance) \div (-dt)) + 1

----------------------------------------------------------------------------
(* acceleration.py: calculate_acceleration_profile *)

\* gravity [m/s^2], 9.81
g == Lit(981)

\* F_res = A + B * v[i-1] + C * v[i-1] ** 2
DavisResistance(A, B, C, vp) == A + Mul(B, vp) + Mul(C, Mul(vp, vp))

\* F_slope = mass * g * (slope_percent / 100.0)
SlopeForce(mass, slope_percent) == Mul(Mul(mass, g), Div(slope_percent, 100 * SCALE))

\* F_tunnel = tunnel_factor * v[i-1] ** 2
TunnelForce(tunnel_factor, vp) == Mul(tunnel_factor, Mul(vp, vp))

\* F_total_res = F_res + F_slope + F_tunnel + F_curve
TotalResistance(p, vp) ==
    DavisResistance(p.A, p.B, p.C, vp) + SlopeForce(p.mass_kg, p.slope_percent)
        + TunnelForce(p.tunnel_factor, vp) + p.curve_resistance

\* F_trac[i] = min(tractive_effort, adhesion_coef * mass * g)
AvailableTraction(p) == Min(p.tractive_effort_n, Mul(Mul(p.adhesion_coef, p.mass_kg), g))

\* variant of AccAcceleration without the clamp: F_net / mass
AccAccelerationUnclipped(p, vp) ==
    Div(AvailableTraction(p) - TotalResistance(p, vp), p.mass_kg)

\* a[i] = np.clip(F_net / mass, -max_acc, max_acc); with mass = 0 the quotient
\* of a non-zero F_net is +inf or -inf, which np.clip brings to the bound
AccAcceleration(p, vp) ==
    LET F_net == AvailableTraction(p) - TotalResistance(p, vp)
    IN  IF p.mass_kg # 0 THEN Clip(Div(F_net, p.mass_kg), -p.max_acc, p.max_acc)
        ELSE IF F_net > 0 THEN p.max_acc ELSE -p.max_acc

\* variant of AccSpeed without the cap: max(0.0, v[i-1] + a[i] * dt)
AccSpeedUncapped(vp, acc, dt, v_max) == Max(0, vp + Mul(acc, dt))

\* variant of AccSpeed without the floor: min(v[i-1] + a[i] * dt, v_max)
AccSpeedUnfloored(vp, acc, dt, v_max) == Min(vp + Mul(acc, dt), v_max)

\* v[i] = max(0.0, min(v[i-1] + a[i] * dt, v_max))
AccSpeed(vp, acc, dt, v_max) == Max(0, Min(vp + Mul(acc, dt), v_max))

\* variant of AccDistance with the sign lost: s[i-1] - v[i] * dt
AccDistanceBackwards(sp, vi, dt) == sp - Mul(vi, dt)

\* s[i] = s[i-1] + v[i] * dt
AccDistance(sp, vi, dt) == sp + Mul(vi, dt)

\* variant of AccStop with a strict comparison: s[i] > distance
AccStopStrict(si, distance) == si > distance

\* if s[i] >= distance
AccStop(si, distance) == si >= distance

\* the arguments of the modelled calls
AccArgs ==
    [ mass_kg          : {Lit(100), Lit(200)},
      tractive_effort_n: {Lit(300), Lit(1000)},
      slope_percent    : {Lit(-100), 0, Lit(100)},
      distance         : {m * (SCALE \div 2) : m \in 0..(2 * MaxDistance)},
      v_max            : {m * SCALE : m \in 0..MaxVmax},
      dt               : {Lit(50), Lit(100)},
      A                : {0, Lit(600)},
      B                : {0, Lit(250)},
      C                : {Lit(1)},
      adhesion_coef    : {Lit(25)},
      tunnel_factor    : {0, Lit(50)},
      curve_resistance : {0, Lit(100)},
      max_acc          : {Lit(50), Lit(100)} ]

InitAcc ==
    /\ call = "calculate_acceleration_profile"
    /\ args \in AccArgs
    /\ n_steps = StepCount(args.distance, args.dt)
    /\ s = Zeros(n_steps)
    /\ v = Zeros(n_steps)
    /\ a = Zeros(n_steps)
    /\ F_trac = Zeros(n_steps)
    /\ i = 1
    /\ pc = "loop"
    /\ k = 0
    /\ out = <<>>
    /\ ret = "none"
    /\ hist = <<>>
    /\ pending = {}

\* one iteration of `for i in range(1, n_steps)`
AccStep ==
    /\ call = "calculate_acceleration_profile"
    /\ pc = "loop"
    /\ i < n_steps
    /\ LET vp  == At(v, i - 1)
           ft  == AvailableTraction(args)
           acc == AccAcceleration(args, vp)
           vi  == AccSpeed(vp, acc, args.dt, args.v_max)
           si  == AccDistance(At(s, i - 1), vi, args.dt)
           s1  == Put(s, i, si)
           v1  == Put(v, i, vi)
           a1  == Put(a, i, acc)
           f1  == Put(F_trac, i, ft)
       IN  IF AccStop(si, args.distance)
           THEN /\ s' = Truncate(s1, i)
                /\ v' = Truncate(v1, i)
                /\ a' = Truncate(a1, i)
                /\ F_trac' = Truncate(f1, i)
                /\ i' = i
                /\ pc' = "return"
           ELSE /\ s' = s1
                /\ v' = v1
                /\ a' = a1
                /\ F_trac' = f1
                /\ i' = i + 1
                /\ pc' = "loop"
    /\ UNCHANGED <<call, args, n_steps, k, out, ret, hist, pending>>

\* return {'distance': s, 'speed': v, 'acceleration': a, 'tractive_effort': F_trac}
AccReturn ==
    /\ call = "calculate_acceleration_profile"
    /\ \/ pc = "return"
       \/ pc = "loop" /\ i >= n_steps
    /\ ret' = [distance |-> s, speed |-> v, acceleration |-> a, tractive_effort |-> F_trac]
    /\ pc' = "done"
    /\ UNCHANGED <<call, args, n_steps, i, s, v, a, F_trac, k, out, hist, pending>>

NextAcc == AccStep \/ AccReturn

SpecAcc == InitAcc /\ [][NextAcc]_vars

----------------------------------------------------------------------------
(* braking.py: calculate_braking_profile *)

RECURSIVE ISqrtBetween(_, _, _)
\* the largest r in lo..hi with r * r <= n (bisection)
ISqrtBetween(n, lo, hi) ==
    IF lo >= hi THEN lo
    ELSE LET mid == (lo + hi + 1) \div 2
         IN  IF mid * mid <= n THEN ISqrtBetween(n, mid, hi)
             ELSE ISqrtBetween(n, lo, mid - 1)

\* np.sqrt(x) of a fixed-point number x >= 0, rounded down
Sqrt(x) == ISqrtBetween(x * SCALE, 0, Max(x, SCALE))

\* 1 / 1e-6, the floor under v2 in `max(v2, 1e-6)`
InvEps == 1000000

\* the arguments p after `value` was written into the array `buffer`: a write
\* to a newly allocated array leaves them alone, a write to an array that is an
\* argument shows in that argument
Stored(p, buffer, value) == IF buffer = "new" THEN p ELSE [p EXCEPT ![buffer] = value]

\* variant of BrkBuffer that works in place: a is the array slope_profile
BrkBufferInPlace == "slope_profile"

\* a = np.zeros(n_steps) is a new array, as are s and v
BrkBuffer == "new"

\* variant of BrkSlopeIndex that reads the slope at the current index i
BrkSlopeIndexCurrent(ii) == ii

\* the index at which iteration ii reads slope_profile: i-1
BrkSlopeIndex(ii) == ii - 1

\* slope_profile[idx] raises IndexError for idx >= len(slope_profile)
BrkSlopeRaises(slope_profile, idx) ==
    ~slope_profile.none /\ idx >= Len(slope_profile.arr)

\* variant of BrkSlope that reads the entry after idx
BrkSlopeNext(slope_profile, idx) ==
    IF slope_profile.none THEN 0 ELSE At(slope_profile.arr, idx + 1)

\* slope = slope_profile[i-1] if slope_profile is not None else 0.0
BrkSlope(slope_profile, idx) == IF slope_profile.none THEN 0 ELSE At(slope_profile.arr, idx)

\* variant of BrkDeceleration returning the magnitude (sign convention lost)
BrkDecelerationMagnitude(p, slope) ==
    -Max(p.min_dec, Min(p.deceleration_profile + Mul(p.g, slope), p.max_dec))

\* dec = deceleration_profile + g * slope; dec = max(min_dec, min(dec, max_dec))
BrkDeceleration(p, slope) ==
    Max(p.min_dec, Min(p.deceleration_profile + Mul(p.g, slope), p.max_dec))

\* dec * 1.0 / max(v2, 1e-6): a fixed-point v2 below 1e-6 is 0
BrkSpeedChange(dec, v2) == IF v2 > 0 THEN Div(dec, v2) ELSE dec * InvEps

\* v1 = np.sqrt(max(0, 2 * dec + v[i-1] ** 2)); v2 = (v[i-1] + v1) / 2
\* v[i] = max(0.0, v[i-1] + dec * 1.0 / max(v2, 1e-6))
BrkSpeed(vp, dec) ==
    LET v1 == Sqrt(Max(0, 2 * dec + Mul(vp, vp)))
        v2 == (vp + v1) \div 2
    IN  Max(0, vp + BrkSpeedChange(dec, v2))

\* s[i] = s[i-1] + v[i] * dt
BrkDistance(sp, vi, dt) == sp + Mul(vi, dt)

\* variant of BrkStop without the distance test: v[i] <= 0.0
BrkStopSpeedOnly(vi, si, distance) == vi <= 0

\* if v[i] <= 0.0 or s[i] >= distance
BrkStop(vi, si, distance) == vi <= 0 \/ si >= distance

\* slope fractions of the modelled slope profiles: -0.05, 0, 0.10
BrkSlopeValues == {Lit(-5), 0, Lit(10)}

\* slope profiles with one entry per requested step: first entry x, the others y
\* (slope_profile=None is the record with none = TRUE)
BrkSlopeProfiles(n) ==
    {[none |-> TRUE, arr |-> <<>>]}
        \cup {[none |-> FALSE, arr |-> [j \in 1..n |-> IF j = 1 THEN x ELSE y]] :
                 x, y \in BrkSlopeValues}

BrkArgs ==
    [ initial_speed       : {m * (SCALE \div 2) : m \in 0..(2 * MaxSpeed)},
      distance            : {m * (SCALE \div 2) : m \in 0..(2 * MaxBrkDistance)},
      deceleration_profile: {Lit(-100)},
      min_dec             : {Lit(-120)},
      max_dec             : {Lit(-50)},
      dt                  : {Lit(50), Lit(100)},
      g                   : {g} ]

InitBrk ==
    /\ call = "calculate_braking_profile"
    /\ \E p \in BrkArgs :
         \E sl \in BrkSlopeProfiles(StepCount(p.distance, p.dt)) :
            args = [initial_speed |-> p.initial_speed, distance |-> p.distance,
                    slope_profile |-> sl,
                    deceleration_profile |-> p.deceleration_profile,
                    min_dec |-> p.min_dec, max_dec |-> p.max_dec,
                    dt |-> p.dt, g |-> p.g]
    /\ n_steps = StepCount(args.distance, args.dt)
    /\ s = Zeros(n_steps)
    /\ v = Put(Zeros(n_steps), 0, args.initial_speed)
    /\ a = Zeros(n_steps)
    /\ F_trac = <<>>
    /\ i = 1
    /\ pc = "loop"
    /\ k = 0
    /\ out = <<>>
    /\ ret = "none"
    /\ hist = <<>>
    /\ pending = {}

\* one iteration of `for i in range(1, n_steps)`
BrkStep ==
    /\ call = "calculate_braking_profile"
    /\ pc = "loop"
    /\ i < n_steps
    /\ IF BrkSlopeRaises(args.slope_profile, BrkSlopeIndex(i))
       THEN pc' = "error" /\ UNCHANGED <<s, v, a, i>>
       ELSE LET slope == BrkSlope(args.slope_profile, BrkSlopeIndex(i))
                dec   == BrkDeceleration(args, slope)
                vi    == BrkSpeed(At(v, i - 1), dec)
                si    == BrkDistance(At(s, i - 1), vi, args.dt)
                s1    == Put(s, i, si)
                v1    == Put(v, i, vi)
                a1    == Put(a, i, dec)
            IN  IF BrkStop(vi, si, args.distance)
                THEN /\ s' = Truncate(s1, i)
                     /\ v' = Truncate(v1, i)
                     /\ a' = Truncate(a1, i)
                     /\ i' = i
                     /\ pc' = "return"
                ELSE /\ s' = s1
                     /\ v' = v1
                     /\ a' = a1
                     /\ i' = i + 1
                     /\ pc' = "loop"
    /\ args' = Stored(args, BrkBuffer, [args.slope_profile EXCEPT !.arr = a'])
    /\ UNCHANGED <<call, n_steps, F_trac, k, out, ret, hist, pending>>

\* return {'distance': s, 'speed': v, 'deceleration': a}
BrkReturn ==
    /\ call = "calculate_braking_profile"
    /\ \/ pc = "return"
       \/ pc = "loop" /\ i >= n_steps
    /\ ret' = [distance |-> s, speed |-> v, deceleration |-> a]
    /\ pc' = "done"
    /\ UNCHANGED <<call, args, n_steps, i, s, v, a, F_trac, k, out, hist, pending>>

NextBrk == BrkStep \/ BrkReturn

SpecBrk == InitBrk /\ [][NextBrk]_vars

----------------------------------------------------------------------------
(* Exact rational arithmetic of the interval calculators *)

Abs(x) == IF x < 0 THEN -x ELSE x

RECURSIVE GCD(_, _)
GCD(x, y) == IF y = 0 THEN x ELSE GCD(y, x % y)

LCM(x, y) == (x \div GCD(x, y)) * y

\* the rational n / d (d # 0) in lowest terms with a positive denominator
Rat(n, d) ==
    LET c  == GCD(Abs(n), Abs(d))
        sg == IF d < 0 THEN -1 ELSE 1
    IN  <<(sg * n) \div c, (sg * d) \div c>>

RInt(n) == <<n, 1>>

RAdd(x, y) ==
    LET l == LCM(x[2], y[2])
    IN  Rat(x[1] * (l \div x[2]) + y[1] * (l \div y[2]), l)

RMul(x, y) == Rat(x[1] * y[1], x[2] * y[2])

RDiv(x, y) == Rat(x[1] * y[2], x[2] * y[1])

\* x <= y and x < y, compared over the common denominator
RLe(x, y) ==
    LET l == LCM(x[2], y[2])
    IN  x[1] * (l \div x[2]) <= y[1] * (l \div y[2])

RLt(x, y) ==
    LET l == LCM(x[2], y[2])
    IN  x[1] * (l \div x[2]) < y[1] * (l \div y[2])

\* np.nan
NaN == <<0, 0>>

IsNaN(x) == x[2] = 0

\* variant of FullNaN that hands back the array of the previous call when
\* its size fits, instead of a new one
KeptNaN(n) == IF Len(out) = n THEN out ELSE [j \in 1..n |-> NaN]

\* np.full_like(x_pos, np.nan, dtype=float)
FullNaN(n) == [j \in 1..n |-> NaN]

\* the strictly increasing integer sequences of length n over lo..hi
RECURSIVE IncreasingSeqs(_, _, _)
IncreasingSeqs(n, lo, hi) ==
    IF n = 0 THEN {<<>>}
    ELSE UNION {{<<x>> \o rest : rest \in IncreasingSeqs(n - 1, x + 1, hi)} : x \in lo..hi}

\* the sequences of length n over the set S
SeqsOver(n, S) == [1..n -> S]

\* np.where((pos[0] < breaks[1:]) & (pos[1] >= breaks[:-1]))[0]:
\* the 0-based indices of the overlapped intervals, in increasing order
Overlap(breaks, pos0, pos1) ==
    LET Hit(j) == pos0 < At(breaks, j + 1) /\ pos1 >= At(breaks, j)
    IN  SelectSeq([j \in 1..(Len(breaks) - 1) |-> j - 1], Hit)

\* values[idx] raises IndexError when an overlapped interval idx has no value
ReadsBeyond(values, breaks, pos0, pos1) ==
    LET inkl_intv == Overlap(breaks, pos0, pos1)
    IN  \E n \in 1..Len(inkl_intv) : inkl_intv[n] >= Len(values)

----------------------------------------------------------------------------
(* slope.py: calculate_equivalent_slope *)

\* ekv_slope = np.full_like(x_pos, np.nan, dtype=float) is a new array
SlopeBuffer == "new"

\* variant of SlopeSeg without the branch of the last interval
SlopeSegLastInFull(lutning_pos, lutning, inkl_intv, n, pos0, pos1) ==
    LET idx == At(inkl_intv, n)
    IN  IF n = 0
        THEN RMul(At(lutning, idx), RInt(At(lutning_pos, idx + 1) - pos0))
        ELSE RMul(At(lutning, idx), RInt(At(lutning_pos, idx + 1) - At(lutning_pos, idx)))

\* variant of SlopeSeg without the branch of the first interval
SlopeSegUnclipped(lutning_pos, lutning, inkl_intv, n, pos0, pos1) ==
    LET idx == At(inkl_intv, n)
    IN  IF n = Len(inkl_intv) - 1
        THEN RMul(At(lutning, idx), RInt(pos1 - At(lutning_pos, idx)))
        ELSE RMul(At(lutning, idx), RInt(At(lutning_pos, idx + 1) - At(lutning_pos, idx)))

\* seg of the n-th overlapped interval (n is `i` of `enumerate(inkl_intv)`)
SlopeSeg(lutning_pos, lutning, inkl_intv, n, pos0, pos1) ==
    LET idx == At(inkl_intv, n)
    IN  IF n = 0
        THEN RMul(At(lutning, idx), RInt(At(lutning_pos, idx + 1) - pos0))
        ELSE IF n = Len(inkl_intv) - 1
        THEN RMul(At(lutning, idx), RInt(pos1 - At(lutning_pos, idx)))
        ELSE RMul(At(lutning, idx), RInt(At(lutning_pos, idx + 1) - At(lutning_pos, idx)))

RECURSIVE SlopeTotal(_, _, _, _, _, _)
\* total after the first n iterations of `for i, idx in enumerate(inkl_intv)`
SlopeTotal(lutning_pos, lutning, inkl_intv, n, pos0, pos1) ==
    IF n = 0 THEN RInt(0)
    ELSE RAdd(SlopeTotal(lutning_pos, lutning, inkl_intv, n - 1, pos0, pos1),
              SlopeSeg(lutning_pos, lutning, inkl_intv, n - 1, pos0, pos1))

\* the body of `for k, xp in enumerate(x_pos)`: the new value of ekv_slope[k]
SlopeAt(p, xp, old) ==
    LET pos0 == xp - p.train_length
        pos1 == xp
        inkl_intv == Overlap(p.lutning_pos, pos0, pos1)
    IN  IF Len(inkl_intv) = 1 THEN At(p.lutning, At(inkl_intv, 0))
        ELSE IF Len(inkl_intv) > 1
        THEN RDiv(SlopeTotal(p.lutning_pos, p.lutning, inkl_intv, Len(inkl_intv), pos0, pos1),
                  RInt(pos1 - pos0))
        ELSE old

\* variant of SlopeEntry in which a sample without overlap takes over the
\* entry of the sample before it
SlopeEntryCarry(p, arr, kk) ==
    LET e == SlopeAt(p, At(p.x_pos, kk), At(arr, kk))
    IN  IF IsNaN(e) /\ kk > 0 THEN At(arr, kk - 1) ELSE e

\* ekv_slope[k] after the iteration for sample k, arr being ekv_slope before it
SlopeEntry(p, arr, kk) == SlopeAt(p, At(p.x_pos, kk), At(arr, kk))

\* slope fractions of the modelled profiles: 0.01, 0.02, -0.01
SlopeValues == {Rat(1, 100), Rat(2, 100), Rat(-1, 100)}

\* the profile and samples of test_calculate_equivalent_slope
SlopeTestArgs ==
    [ lutning_pos  |-> <<0, 500, 1000>>,
      lutning      |-> <<Rat(1, 100), Rat(2, 100)>>,
      x_pos        |-> <<0, 250, 500, 750, 1000>>,
      train_length |-> 100 ]

SlopeArgs ==
    {SlopeTestArgs} \cup
    UNION {[ lutning_pos  : IncreasingSeqs(n, 0, MaxPos),
             lutning      : SeqsOver(n - 1, SlopeValues),
             \* two samples, from before the first to after the last breakpoint
             x_pos        : IncreasingSeqs(2, -1, MaxPos + 2),
             train_length : 0..MaxTrainLen ] : n \in 2..MaxBreaks}

InitSlope ==
    /\ call = "calculate_equivalent_slope"
    /\ args \in SlopeArgs
    /\ out = FullNaN(Len(args.x_pos))
    /\ k = 0
    /\ pc = "loop"
    /\ n_steps = 0
    /\ i = 0
    /\ s = <<>>
    /\ v = <<>>
    /\ a = <<>>
    /\ F_trac = <<>>
    /\ ret = "none"
    /\ hist = <<>>
    /\ pending = {}

\* one iteration of `for k, xp in enumerate(x_pos)`
SlopeStep ==
    /\ call = "calculate_equivalent_slope"
    /\ pc = "loop"
    /\ k < Len(args.x_pos)
    /\ IF ReadsBeyond(args.lutning, args.lutning_pos,
                      At(args.x_pos, k) - args.train_length, At(args.x_pos, k))
       THEN pc' = "error" /\ UNCHANGED <<out, k>>
       ELSE /\ out' = Put(out, k, SlopeEntry(args, out, k))
            /\ k' = k + 1
            /\ pc' = pc
    /\ args' = Stored(args, SlopeBuffer, out')
    /\ UNCHANGED <<call, n_steps, i, s, v, a, F_trac, ret, hist, pending>>

\* return ekv_slope
SlopeReturn ==
    /\ call = "calculate_equivalent_slope"
    /\ pc = "loop"
    /\ k >= Len(args.x_pos)
    /\ ret' = out
    /\ pc' = "done"
    /\ UNCHANGED <<call, args, n_steps, i, s, v, a, F_trac, k, out, hist, pending>>

NextSlope == SlopeStep \/ SlopeReturn

SpecSlope == InitSlope /\ [][NextSlope]_vars

----------------------------------------------------------------------------
(* curve_resistance.py: calculate_curve_resistance *)

\* resistance = np.full_like(x_pos, np.nan, dtype=float) is a new array
CurveBuffer == "new"

\* variant of UnitResistance with the radius 300 on the tight-curve branch
UnitResistanceInclusive(r) ==
    IF r <= 300 THEN RDiv(Rat(491, 100), RInt(r - 30))
    ELSE RDiv(Rat(63, 10), RInt(r - 55))

\* 4.91 / (r - 30) if r < 300, else 6.3 / (r - 55)
UnitResistance(r) ==
    IF r < 300 THEN RDiv(Rat(491, 100), RInt(r - 30))
    ELSE RDiv(Rat(63, 10), RInt(r - 55))

\* one overlapped interval: 4.91 / (r - 30) * train_mass
CurveForce(r, train_mass) == RMul(UnitResistance(r), RInt(train_mass))

\* variant of CurveTmp without the division by the occupied length
CurveTmpNotNormalised(r, train_mass, pos0, pos1) ==
    RMul(UnitResistance(r), RInt(train_mass))

\* several intervals: tmp = 4.91 / (r - 30) * train_mass / (pos[2-1] - pos[0])
CurveTmp(r, train_mass, pos0, pos1) ==
    RDiv(RMul(UnitResistance(r), RInt(train_mass)), RInt(pos1 - pos0))

\* variant of CurveSeg that weights the last overlapped interval with its whole
\* length
CurveSegLastInFull(p, inkl_intv, n, pos0, pos1) ==
    LET idx == At(inkl_intv, n)
        tmp == CurveTmp(At(p.curve_radius, idx), p.train_mass, pos0, pos1)
    IN  IF n = 0
        THEN RMul(tmp, RInt(At(p.curve_pos, idx + 1) - pos0))
        ELSE RMul(tmp, RInt(At(p.curve_pos, idx + 1) - At(p.curve_pos, idx)))

\* seg of the n-th overlapped interval (n is `i` of `enumerate(inkl_intv)`)
CurveSeg(p, inkl_intv, n, pos0, pos1) ==
    LET idx == At(inkl_intv, n)
        tmp == CurveTmp(At(p.curve_radius, idx), p.train_mass, pos0, pos1)
    IN  IF n = 0
        THEN RMul(tmp, RInt(At(p.curve_pos, idx + 1) - pos0))
        ELSE IF n = Len(inkl_intv) - 1
        THEN RMul(tmp, RInt(pos1 - At(p.curve_pos, idx)))
        ELSE RMul(tmp, RInt(At(p.curve_pos, idx + 1) - At(p.curve_pos, idx)))

RECURSIVE CurveTotal(_, _, _, _, _)
\* curve_force after the first n >= 1 iterations of `for i, idx in enumerate(inkl_intv)`
CurveTotal(p, inkl_intv, n, pos0, pos1) ==
    IF n = 1 THEN CurveSeg(p, inkl_intv, 0, pos0, pos1)
    ELSE RAdd(CurveTotal(p, inkl_intv, n - 1, pos0, pos1),
              CurveSeg(p, inkl_intv, n - 1, pos0, pos1))

\* the body of `for k, xp in enumerate(x_pos)`: the new value of resistance[k]
CurveAt(p, xp, old) ==
    LET pos0 == xp - p.train_length
        pos1 == xp
        inkl_intv == Overlap(p.curve_pos, pos0, pos1)
    IN  IF Len(inkl_intv) = 1 THEN CurveForce(At(p.curve_radius, At(inkl_intv, 0)), p.train_mass)
        ELSE IF Len(inkl_intv) > 1
        THEN CurveTotal(p, inkl_intv, Len(inkl_intv), pos0, pos1)
        ELSE old

\* resistance[k] after the iteration for sample k, arr being resistance before it
CurveEntry(p, arr, kk) == CurveAt(p, At(p.x_pos, kk), At(arr, kk))

\* curve radii of the modelled profiles [m]
CurveRadii == {200, 300, 500}

\* train masses of the modelled calls [kg]
CurveMasses == {1, 50000}

\* the profile and samples of test_calculate_curve_resistance
CurveTestArgs ==
    [ curve_pos    |-> <<0, 500, 1000>>,
      curve_radius |-> <<500, 200>>,
      x_pos        |-> <<0, 250, 500, 750, 1000>>,
      train_length |-> 100,
      train_mass   |-> 50000 ]

CurveArgs ==
    {CurveTestArgs} \cup
    UNION {[ curve_pos    : IncreasingSeqs(n, 0, MaxPos),
             curve_radius : SeqsOver(n - 1, CurveRadii),
             x_pos        : IncreasingSeqs(2, -1, MaxPos + 2),
             train_length : 0..MaxTrainLen,
             train_mass   : CurveMasses ] : n \in 2..MaxBreaks}

InitCurve ==
    /\ call = "calculate_curve_resistance"
    /\ args \in CurveArgs
    /\ out = FullNaN(Len(args.x_pos))
    /\ k = 0
    /\ pc = "loop"
    /\ n_steps = 0
    /\ i = 0
    /\ s = <<>>
    /\ v = <<>>
    /\ a = <<>>
    /\ F_trac = <<>>
    /\ ret = "none"
    /\ hist = <<>>
    /\ pending = {}

\* one iteration of `for k, xp in enumerate(x_pos)`
CurveStep ==
    /\ call = "calculate_curve_resistance"
    /\ pc = "loop"
    /\ k < Len(args.x_pos)
    /\ IF ReadsBeyond(args.curve_radius, args.curve_pos,
                      At(args.x_pos, k) - args.train_length, At(args.x_pos, k))
       THEN pc' = "error" /\ UNCHANGED <<out, k>>
       ELSE /\ out' = Put(out, k, CurveEntry(args, out, k))
            /\ k' = k + 1
            /\ pc' = pc
    /\ args' = Stored(args, CurveBuffer, out')
    /\ UNCHANGED <<call, n_steps, i, s, v, a, F_trac, ret, hist, pending>>

\* return resistance
CurveReturn ==
    /\ call = "calculate_curve_resistance"
    /\ pc = "loop"
    /\ k >= Len(args.x_pos)
    /\ ret' = out
    /\ pc' = "done"
    /\ UNCHANGED <<call, args, n_steps, i, s, v, a, F_trac, k, out, hist, pending>>

NextCurve == CurveStep \/ CurveReturn

SpecCurve == InitCurve /\ [][NextCurve]_vars

----------------------------------------------------------------------------
(* block_occupancy.py: calculate_block_occupancy *)

\* longest modelled time_profile
MaxProfileLen == 3

\* most blocks of a modelled call
MaxBlocks == 2

RSub(x, y) == RAdd(x, RMul(RInt(-1), y))

RAbs(x) == <<Abs(x[1]), x[2]>>

\* Python's round() of a float: to the nearest integer, a half to the even one
PyRound(x) ==
    LET q  == x[1] \div x[2]
        r2 == 2 * (x[1] % x[2])
    IN  IF r2 < x[2] THEN q
        ELSE IF r2 > x[2] THEN q + 1
        ELSE IF q % 2 = 0 THEN q ELSE q + 1

\* Python's int() of a float: truncation towards zero
PyInt(x) == IF x[1] >= 0 THEN x[1] \div x[2] ELSE -((-x[1]) \div x[2])

\* arr[idx] raises IndexError unless -len(arr) <= idx < len(arr)
PyIndexOk(arr, idx) == idx >= -Len(arr) /\ idx < Len(arr)

\* arr[idx] of an array: a negative idx counts from the end
PyAt(arr, idx) == IF idx >= 0 THEN arr[idx + 1] ELSE arr[Len(arr) + idx + 1]

\* np.arange(n)
Arange(n) == [j \in 1..n |-> RInt(j - 1)]

\* speed_diff = np.abs(speed_profile - release_speed[k])
SpeedDiff(p, kk) ==
    [j \in 1..Len(p.speed_profile) |->
        RAbs(RSub(p.speed_profile[j], At(p.release_speed, kk)))]

\* idx = np.where(speed_diff <= v_tol)[0]
BlkIdx(p, kk) ==
    LET speed_diff == SpeedDiff(p, kk)
        Hit(j) == RLe(At(speed_diff, j), p.v_tol)
    IN  SelectSeq([j \in 1..Len(speed_diff) |-> j - 1], Hit)

\* release_idx = bp + int(round(train_length)) + int(overlap[k])
ReleaseIdx(p, kk) ==
    At(p.block_positions, kk) + PyRound(p.train_length) + PyInt(At(p.overlap, kk))

\* the indices at which iteration kk reads time_profile
BlkReads(p, kk) ==
    LET bp  == At(p.block_positions, kk)
        idx == BlkIdx(p, kk)
        n   == Len(p.time_profile)
    IN  (IF Len(idx) = 0 THEN (IF bp < n THEN {bp} ELSE {}) ELSE {At(idx, 0)})
        \cup (IF bp < n THEN {bp} ELSE {})
        \cup (IF ReleaseIdx(p, kk) < n THEN {ReleaseIdx(p, kk)} ELSE {})

\* iteration kk raises IndexError
BlkRaises(p, kk) == \E r \in BlkReads(p, kk) : ~PyIndexOk(p.time_profile, r)

\* mb_times[k, 0], mb_times[k, 1], mb_times[k, 2]: closest speed difference,
\* its index and the booking time
BlkBooking(p, kk) ==
    LET bp  == At(p.block_positions, kk)
        idx == BlkIdx(p, kk)
        b   == At(idx, 0)
    IN  IF Len(idx) = 0
        THEN <<NaN, NaN,
               IF bp < Len(p.time_profile)
               THEN RSub(PyAt(p.time_profile, bp), p.reserve_before_arrival)
               ELSE NaN>>
        ELSE <<At(SpeedDiff(p, kk), b), RInt(b),
               RSub(PyAt(p.time_profile, b), At(p.setting_time, kk))>>

\* variant of BlkArrival that looks the block position up in position_profile:
\* the time of the first sample whose position is at or beyond bp
BlkArrivalByPosition(p, kk) ==
    LET bp == At(p.block_positions, kk)
        M  == {j \in 1..Len(p.position_profile) : RLe(RInt(bp), p.position_profile[j])}
        j0 == CHOOSE j \in M : \A j2 \in M : j <= j2
    IN  IF M # {} /\ j0 <= Len(p.time_profile) THEN p.time_profile[j0] ELSE NaN

\* mb_times[k, 3]: arrival time
BlkArrival(p, kk) ==
    LET bp == At(p.block_positions, kk)
    IN  IF bp < Len(p.time_profile) THEN PyAt(p.time_profile, bp) ELSE NaN

\* mb_times[k, 4]: release time
BlkRelease(p, kk) ==
    LET release_idx == ReleaseIdx(p, kk)
    IN  IF release_idx < Len(p.time_profile)
        THEN RAdd(PyAt(p.time_profile, release_idx), At(p.release_time, kk))
        ELSE NaN

\* the row mb_times[k] after iteration kk
BlkRow(p, kk) == BlkBooking(p, kk) \o <<BlkArrival(p, kk), BlkRelease(p, kk)>>

\* the sequences of length n whose first entry is x and whose others are y
FirstAndRest(n, x, y) == [j \in 1..n |-> IF j = 1 THEN x ELSE y]

\* block positions from below -len(time_profile) up to len(time_profile)
BlockPosValues == (-(MaxProfileLen + 1))..MaxProfileLen

\* release speeds: met exactly at index 1, met within v_tol at index 2, never met
ReleaseSpeeds == {RInt(10), Rat(199, 10), RInt(15)}

BlockTrainLengths == {Rat(1, 2), RInt(1), Rat(5, 2)}

BlockOverlaps == {RInt(-2), RInt(0), Rat(3, 2)}

\* the call of test_calculate_block_occupancy
BlockTestArgs ==
    [ block_positions        |-> <<2, 4, 6>>,
      speed_profile          |-> [j \in 1..7 |-> RInt(10 * j)],
      position_profile       |-> Arange(7),
      time_profile           |-> Arange(7),
      release_speed          |-> <<RInt(10), RInt(20), RInt(30)>>,
      train_length           |-> RInt(1),
      overlap                |-> <<RInt(1), RInt(1), RInt(1)>>,
      release_time           |-> <<RInt(1), RInt(1), RInt(1)>>,
      setting_time           |-> <<RInt(1), RInt(1), RInt(1)>>,
      reserve_before_arrival |-> RInt(1),
      v_tol                  |-> Rat(1, 10) ]

\* a call over nb blocks: speed 0, 10, 20, ... over n samples, time_profile
\* 0, 1, 2, ... over nt samples, the first block at x with release speed rx,
\* the other blocks at y with release speed ry
BlockCallArgs(nb, n, nt, x, y, rx, ry, len, ov) ==
    [ block_positions        |-> FirstAndRest(nb, x, y),
      speed_profile          |-> [j \in 1..n |-> RInt(10 * (j - 1))],
      position_profile       |-> Arange(n),
      time_profile           |-> Arange(nt),
      release_speed          |-> FirstAndRest(nb, rx, ry),
      train_length           |-> len,
      overlap                |-> FirstAndRest(nb, ov, ov),
      release_time           |-> FirstAndRest(nb, RInt(2), RInt(0)),
      setting_time           |-> FirstAndRest(nb, RInt(1), RInt(1)),
      reserve_before_arrival |-> RInt(3),
      v_tol                  |-> Rat(1, 10) ]

InitBlock ==
    /\ call = "calculate_block_occupancy"
    /\ \/ args = BlockTestArgs
       \/ \E nb \in 1..MaxBlocks, n \in 2..MaxProfileLen :
          \E nt \in {n - 1, n}, x \in BlockPosValues, rx \in ReleaseSpeeds :
          \E y \in (IF nb = 1 THEN {0} ELSE BlockPosValues) :
          \E ry \in (IF nb = 1 THEN {RInt(10)} ELSE ReleaseSpeeds) :
          \E len \in BlockTrainLengths, ov \in BlockOverlaps :
             args = BlockCallArgs(nb, n, nt, x, y, rx, ry, len, ov)
    /\ out = [j \in 1..Len(args.block_positions) |-> <<NaN, NaN, NaN, NaN, NaN>>]
    /\ k = 0
    /\ pc = "loop"
    /\ n_steps = 0
    /\ i = 0
    /\ s = <<>>
    /\ v = <<>>
    /\ a = <<>>
    /\ F_trac = <<>>
    /\ ret = "none"
    /\ hist = <<>>
    /\ pending = {}

\* one iteration of `for k, bp in enumerate(block_positions)`
BlockStep ==
    /\ call = "calculate_block_occupancy"
    /\ pc = "loop"
    /\ k < Len(args.block_positions)
    /\ IF BlkRaises(args, k)
       THEN pc' = "error" /\ UNCHANGED <<out, k>>
       ELSE /\ out' = Put(out, k, BlkRow(args, k))
            /\ k' = k + 1
            /\ pc' = pc
    /\ UNCHANGED <<call, args, n_steps, i, s, v, a, F_trac, ret, hist, pending>>

\* return mb_times
BlockReturn ==
    /\ call = "calculate_block_occupancy"
    /\ pc = "loop"
    /\ k >= Len(args.block_positions)
    /\ ret' = out
    /\ pc' = "done"
    /\ UNCHANGED <<call, args, n_steps, i, s, v, a, F_trac, k, out, hist, pending>>

NextBlock == BlockStep \/ BlockReturn

SpecBlock == InitBlock /\ [][NextBlock]_vars

----------------------------------------------------------------------------
(* The integrators called with unchecked arguments *)

\* arguments as a caller may pass them: mass, tractive effort and dt also zero
\* or negative (A > 0 keeps F_net away from 0, where 0 / 0 would be NaN)
AccCallArgs ==
    [ mass_kg          : {Lit(-100), 0, Lit(100)},
      tractive_effort_n: {Lit(-300), 0, Lit(300)},
      slope_percent    : {0},
      distance         : {m * (SCALE \div 2) : m \in 0..MaxDistance},
      v_max            : {MaxVmax * SCALE},
      dt               : {Lit(-100), 0, Lit(50), Lit(100)},
      A                : {Lit(100)},
      B                : {0},
      C                : {Lit(1)},
      adhesion_coef    : {Lit(25)},
      tunnel_factor    : {0},
      curve_resistance : {0},
      max_acc          : {Lit(100)} ]

\* the caller is about to construct TrainConfig(mass_kg, tractive_effort_n, ...)
InitAccCall ==
    /\ call = "calculate_acceleration_profile"
    /\ args \in AccCallArgs
    /\ pc = "construct"
    /\ n_steps = 0
    /\ i = 0
    /\ s = <<>>
    /\ v = <<>>
    /\ a = <<>>
    /\ F_trac = <<>>
    /\ k = 0
    /\ out = <<>>
    /\ ret = "none"
    /\ hist = <<>>
    /\ pending = {}

\* TrainConfig.__init__ stores mass_kg, tractive_effort_n and train_type
TrainConfigInit ==
    /\ call = "calculate_acceleration_profile"
    /\ pc = "construct"
    /\ pc' = "entry"
    /\ UNCHANGED <<call, args, n_steps, i, s, v, a, F_trac, k, out, ret, hist, pending>>

\* n_steps = int(distance // dt) + 1 raises ZeroDivisionError for dt = 0,
\* np.zeros(n_steps) raises ValueError for n_steps < 0 and v[0] = ... raises
\* IndexError for n_steps = 0; otherwise the arrays are allocated
AccEnter ==
    /\ call = "calculate_acceleration_profile"
    /\ pc = "entry"
    /\ IF args.dt = 0 \/ StepCount(args.distance, args.dt) <= 0
       THEN /\ pc' = "error"
            /\ UNCHANGED <<n_steps, i, s, v, a, F_trac>>
       ELSE /\ n_steps' = StepCount(args.distance, args.dt)
            /\ s' = Zeros(n_steps')
            /\ v' = Zeros(n_steps')
            /\ a' = Zeros(n_steps')
            /\ F_trac' = Zeros(n_steps')
            /\ i' = 1
            /\ pc' = "loop"
    /\ UNCHANGED <<call, args, k, out, ret, hist, pending>>

NextAccCall == TrainConfigInit \/ AccEnter \/ AccStep \/ AccReturn

SpecAccCall == InitAccCall /\ [][NextAccCall]_vars

----------------------------------------------------------------------------
\* braking arguments as a caller may pass them: deceleration bounds also zero,
\* positive or crossed, dt also zero or negative
BrkCallArgs ==
    [ initial_speed       : {0, 2 * SCALE},
      distance            : {m * SCALE : m \in 0..MaxDistance},
      slope_profile       : {[none |-> TRUE, arr |-> <<>>]},
      deceleration_profile: {Lit(-100)},
      min_dec             : {Lit(-120), 0, Lit(50)},
      max_dec             : {Lit(-50), 0, Lit(100)},
      dt                  : {Lit(-100), 0, Lit(50), Lit(100)},
      g                   : {g} ]

InitBrkCall ==
    /\ call = "calculate_braking_profile"
    /\ args \in BrkCallArgs
    /\ pc = "entry"
    /\ n_steps = 0
    /\ i = 0
    /\ s = <<>>
    /\ v = <<>>
    /\ a = <<>>
    /\ F_trac = <<>>
    /\ k = 0
    /\ out = <<>>
    /\ ret = "none"
    /\ hist = <<>>
    /\ pending = {}

\* n_steps = int(distance // dt) + 1 raises ZeroDivisionError for dt = 0,
\* np.zeros(n_steps) raises ValueError for n_steps < 0 and v[0] = initial_speed
\* raises IndexError for n_steps = 0; otherwise the arrays are allocated
BrkEnter ==
    /\ call = "calculate_braking_profile"
    /\ pc = "entry"
    /\ IF args.dt = 0 \/ StepCount(args.distance, args.dt) <= 0
       THEN /\ pc' = "error"
            /\ UNCHANGED <<n_steps, i, s, v, a>>
       ELSE /\ n_steps' = StepCount(args.distance, args.dt)
            /\ s' = Zeros(n_steps')
            /\ v' = Put(Zeros(n_steps'), 0, args.initial_speed)
            /\ a' = Zeros(n_steps')
            /\ i' = 1
            /\ pc' = "loop"
    /\ args' = Stored(args, BrkBuffer, [args.slope_profile EXCEPT !.arr = a'])
    /\ UNCHANGED <<call, F_trac, k, out, ret, hist, pending>>

NextBrkCall == BrkEnter \/ BrkStep \/ BrkReturn

SpecBrkCall == InitBrkCall /\ [][NextBrkCall]_vars

----------------------------------------------------------------------------
(* The interval calculators called with unchecked profiles *)

\* most breakpoints and largest breakpoint of an unchecked profile
MaxCallBreaks == 3
MaxCallPos == 2

\* breakpoints in any order, possibly repeated
CallBreaks == UNION {SeqsOver(n, 0..MaxCallPos) : n \in 2..MaxCallBreaks}

\* the sample positions of the unchecked calls
CallSamples == {<<1, 2>>, <<0, 3>>}

\* a train length above 0 keeps pos[1] - pos[0] away from 0
CallTrainLengths == {1, 2}

InitSlopeCall ==
    /\ call = "calculate_equivalent_slope"
    /\ \E bs \in CallBreaks, m \in 1..MaxCallBreaks :
       \E vs \in SeqsOver(m, {Rat(1, 100), Rat(2, 100)}) :
       \E xs \in CallSamples, len \in CallTrainLengths :
          args = [lutning_pos |-> bs, lutning |-> vs, x_pos |-> xs, train_length |-> len]
    /\ out = FullNaN(Len(args.x_pos))
    /\ k = 0
    /\ pc = "loop"
    /\ n_steps = 0
    /\ i = 0
    /\ s = <<>>
    /\ v = <<>>
    /\ a = <<>>
    /\ F_trac = <<>>
    /\ ret = "none"
    /\ hist = <<>>
    /\ pending = {}

InitCurveCall ==
    /\ call = "calculate_curve_resistance"
    /\ \E bs \in CallBreaks, m \in 1..MaxCallBreaks :
       \E rs \in SeqsOver(m, {200, 500}) :
       \E xs \in CallSamples, len \in CallTrainLengths :
          args = [curve_pos |-> bs, curve_radius |-> rs, x_pos |-> xs,
                  train_length |-> len, train_mass |-> 1]
    /\ out = FullNaN(Len(args.x_pos))
    /\ k = 0
    /\ pc = "loop"
    /\ n_steps = 0
    /\ i = 0
    /\ s = <<>>
    /\ v = <<>>
    /\ a = <<>>
    /\ F_trac = <<>>
    /\ ret = "none"
    /\ hist = <<>>
    /\ pending = {}

InitProfileCall == InitSlopeCall \/ InitCurveCall

NextProfileCall == SlopeStep \/ SlopeReturn \/ CurveStep \/ CurveReturn

SpecProfileCall == InitProfileCall /\ [][NextProfileCall]_vars

----------------------------------------------------------------------------
(* A process that calls the routines one after another *)

\* most calls of one process
MaxCalls == 3

SessionAccArgs ==
    [ mass_kg          : {Lit(100)},
      tractive_effort_n: {Lit(300)},
      slope_percent    : {0},
      distance         : {2 * SCALE},
      v_max            : {MaxVmax * SCALE},
      dt               : {Lit(100)},
      A                : {0},
      B                : {0},
      C                : {Lit(1)},
      adhesion_coef    : {Lit(25)},
      tunnel_factor    : {0},
      curve_resistance : {0},
      max_acc          : {Lit(50), Lit(100)} ]

SessionBrkArgs ==
    [ initial_speed       : {2 * SCALE, 4 * SCALE},
      distance            : {2 * SCALE},
      slope_profile       : {[none |-> TRUE, arr |-> <<>>]},
      deceleration_profile: {Lit(-100)},
      min_dec             : {Lit(-120)},
      max_dec             : {Lit(-50)},
      dt                  : {Lit(100)},
      g                   : {g} ]

\* two profiles under the same samples: the second sample lies beyond the
\* first profile and inside the second
SessionSlopeArgs ==
    [ lutning_pos  : {<<0, 2, 4>>, <<0, 2, 6>>},
      lutning      : {<<Rat(1, 100), Rat(2, 100)>>},
      x_pos        : {<<1, 5>>},
      train_length : {1} ]

SessionCurveArgs ==
    [ curve_pos    : {<<0, 2, 4>>, <<0, 2, 6>>},
      curve_radius : {<<200, 500>>},
      x_pos        : {<<1, 5>>},
      train_length : {1},
      train_mass   : {1} ]

\* one block, inside or beyond a three-sample profile
SessionBlockArgs ==
    {BlockCallArgs(1, 3, 3, x, 0, RInt(10), RInt(10), RInt(1), RInt(0)) : x \in {1, 3}}

SessionCalls ==
    {[call |-> "calculate_acceleration_profile", args |-> p] : p \in SessionAccArgs}
    \cup {[call |-> "calculate_braking_profile", args |-> p] : p \in SessionBrkArgs}
    \cup {[call |-> "calculate_equivalent_slope", args |-> p] : p \in SessionSlopeArgs}
    \cup {[call |-> "calculate_curve_resistance", args |-> p] : p \in SessionCurveArgs}
    \cup {[call |-> "calculate_block_occupancy", args |-> p] : p \in SessionBlockArgs}

InitSession ==
    /\ call = "none"
    /\ args = <<>>
    /\ pc = "idle"
    /\ n_steps = 0
    /\ i = 0
    /\ s = <<>>
    /\ v = <<>>
    /\ a = <<>>
    /\ F_trac = <<>>
    /\ k = 0
    /\ out = <<>>
    /\ ret = "none"
    /\ hist = <<>>
    /\ pending = {}

\* the caller invokes a routine; what earlier calls left behind is still there
StartCall ==
    /\ pc = "idle"
    /\ Len(hist) < MaxCalls
    /\ \E c \in SessionCalls :
          /\ call' = c.call
          /\ args' = c.args
    /\ pc' = "entry"
    /\ UNCHANGED <<n_steps, i, s, v, a, F_trac, k, out, ret, hist, pending>>

\* ekv_slope = np.full_like(x_pos, np.nan, dtype=float)
SlopeEnter ==
    /\ call = "calculate_equivalent_slope"
    /\ pc = "entry"
    /\ out' = FullNaN(Len(args.x_pos))
    /\ k' = 0
    /\ pc' = "loop"
    /\ args' = Stored(args, SlopeBuffer, out')
    /\ UNCHANGED <<call, n_steps, i, s, v, a, F_trac, ret, hist, pending>>

\* resistance = np.full_like(x_pos, np.nan, dtype=float)
CurveEnter ==
    /\ call = "calculate_curve_resistance"
    /\ pc = "entry"
    /\ out' = FullNaN(Len(args.x_pos))
    /\ k' = 0
    /\ pc' = "loop"
    /\ args' = Stored(args, CurveBuffer, out')
    /\ UNCHANGED <<call, n_steps, i, s, v, a, F_trac, ret, hist, pending>>

\* mb_times = np.full((n_blocks, 5), np.nan)
BlockEnter ==
    /\ call = "calculate_block_occupancy"
    /\ pc = "entry"
    /\ out' = [j \in 1..Len(args.block_positions) |-> <<NaN, NaN, NaN, NaN, NaN>>]
    /\ k' = 0
    /\ pc' = "loop"
    /\ UNCHANGED <<call, args, n_steps, i, s, v, a, F_trac, ret, hist, pending>>

\* the caller receives the result, or the exception, of the finished call
LogResult ==
    /\ pc \in {"done", "error"}
    /\ hist' = Append(hist, [call   |-> call,
                             args   |-> args,
                             raised |-> pc = "error",
                             value  |-> IF pc = "done" THEN ret ELSE <<>>])
    /\ pc' = "idle"
    /\ UNCHANGED <<call, args, n_steps, i, s, v, a, F_trac, k, out, ret, pending>>

NextSession ==
    \/ StartCall
    \/ LogResult
    \/ AccEnter
    \/ AccStep
    \/ AccReturn
    \/ BrkEnter
    \/ BrkStep
    \/ BrkReturn
    \/ SlopeEnter
    \/ SlopeStep
    \/ SlopeReturn
    \/ CurveEnter
    \/ CurveStep
    \/ CurveReturn
    \/ BlockEnter
    \/ BlockStep
    \/ BlockReturn

SpecSession == InitSession /\ [][NextSession]_vars

----------------------------------------------------------------------------
(* Two calls of calculate_block_occupancy that differ in position_profile *)

\* position profiles of n samples: 0, 1, 2, ...; 0, 2, 4, ...; 0, 0.5, 1, ...
PositionProfiles(n) ==
    {Arange(n), [j \in 1..n |-> RInt(2 * (j - 1))], [j \in 1..n |-> Rat(j - 1, 2)]}

\* the first call: one or two blocks over a profile of MaxProfileLen samples
BlockPairArgs ==
    {[BlockCallArgs(nb, MaxProfileLen, MaxProfileLen, x, y, rx, RInt(15), RInt(1), RInt(0))
         EXCEPT !.position_profile = pp] :
        nb \in 1..MaxBlocks, x \in BlockPosValues, y \in BlockPosValues,
        rx \in ReleaseSpeeds, pp \in PositionProfiles(MaxProfileLen)}

InitBlockPair == InitSession

\* the caller invokes calculate_block_occupancy; the second call repeats the
\* first with another position_profile
StartBlockPair ==
    /\ pc = "idle"
    /\ Len(hist) < 2
    /\ call' = "calculate_block_occupancy"
    /\ IF hist = <<>>
       THEN args' \in BlockPairArgs
       ELSE \E pp \in PositionProfiles(Len(hist[1].args.position_profile)) :
               /\ pp # hist[1].args.position_profile
               /\ args' = [hist[1].args EXCEPT !.position_profile = pp]
    /\ pc' = "entry"
    /\ UNCHANGED <<n_steps, i, s, v, a, F_trac, k, out, ret, hist, pending>>

NextBlockPair ==
    \/ StartBlockPair
    \/ BlockEnter
    \/ BlockStep
    \/ BlockReturn
    \/ LogResult

SpecBlockPair == InitBlockPair /\ [][NextBlockPair]_vars

----------------------------------------------------------------------------
(* Two calls of calculate_braking_profile that differ in slope_profile *)

\* slope profiles of 1 up to n entries, level or 10 % uphill
BrkPairSlopes(n) ==
    UNION {{[none |-> FALSE, arr |-> sq] : sq \in SeqsOver(m, {0, Lit(10)})} : m \in 1..n}

\* the first call: the profile may be shorter than, as long as, or longer than
\* floor(distance / dt)
BrkPairArgs ==
    UNION {[ initial_speed       : {0, Lit(100), Lit(150), Lit(400)},
             distance            : {d},
             slope_profile       : BrkPairSlopes(StepCount(d, Lit(100))),
             deceleration_profile: {Lit(-100)},
             min_dec             : {Lit(-120)},
             max_dec             : {Lit(-50)},
             dt                  : {Lit(100)},
             g                   : {g} ] : d \in {Lit(250), Lit(300)}}

InitBrkPair == InitSession

\* the caller invokes calculate_braking_profile; the second call repeats the
\* first with another slope_profile
StartBrkPair ==
    /\ pc = "idle"
    /\ Len(hist) < 2
    /\ call' = "calculate_braking_profile"
    /\ IF hist = <<>>
       THEN args' \in BrkPairArgs
       ELSE \E sl \in BrkPairSlopes(StepCount(hist[1].args.distance, hist[1].args.dt)) :
               /\ sl # hist[1].args.slope_profile
               /\ args' = [hist[1].args EXCEPT !.slope_profile = sl]
    /\ pc' = "entry"
    /\ UNCHANGED <<n_steps, i, s, v, a, F_trac, k, out, ret, hist, pending>>

NextBrkPair ==
    \/ StartBrkPair
    \/ BrkEnter
    \/ BrkStep
    \/ BrkReturn
    \/ LogResult

SpecBrkPair == InitBrkPair /\ [][NextBrkPair]_vars

----------------------------------------------------------------------------
(* The entries of one call computed in any order *)

\* profiles with two intervals under three samples in any arrangement, some
\* outside the profile
AnyOrderSamples == {<<1, 3, 5>>, <<5, 1, 3>>, <<3, -1, 2>>, <<6, 3, 7>>}

AnyOrderSlopeArgs ==
    [ lutning_pos  : {<<0, 2, 4>>},
      lutning      : {<<Rat(1, 100), Rat(2, 100)>>},
      x_pos        : AnyOrderSamples,
      train_length : 0..MaxTrainLen ]

AnyOrderCurveArgs ==
    [ curve_pos    : {<<0, 2, 4>>},
      curve_radius : {<<200, 500>>},
      x_pos        : AnyOrderSamples,
      train_length : 0..MaxTrainLen,
      train_mass   : {1} ]

\* two blocks anywhere from below -len(time_profile) to len(time_profile)
AnyOrderBlockArgs ==
    {BlockCallArgs(MaxBlocks, MaxProfileLen, MaxProfileLen, x, y, rx, RInt(15), RInt(1), RInt(0)) :
        x \in BlockPosValues, y \in BlockPosValues, rx \in ReleaseSpeeds}

AnyOrderCalls ==
    {[call |-> "calculate_equivalent_slope", args |-> p] : p \in AnyOrderSlopeArgs}
    \cup {[call |-> "calculate_curve_resistance", args |-> p] : p \in AnyOrderCurveArgs}
    \cup {[call |-> "calculate_block_occupancy", args |-> p] : p \in AnyOrderBlockArgs}

InitAnyOrder == InitSession

\* the first call runs the routine's sequential loop
StartSequential ==
    /\ pc = "idle"
    /\ hist = <<>>
    /\ \E c \in AnyOrderCalls :
          /\ call' = c.call
          /\ args' = c.args
    /\ pc' = "entry"
    /\ UNCHANGED <<n_steps, i, s, v, a, F_trac, k, out, ret, hist, pending>>

\* the second call has the same arguments; after the routine's setup its
\* entries are all still to be computed
StartAnyOrder ==
    /\ pc = "idle"
    /\ Len(hist) = 1
    /\ call' = hist[1].call
    /\ args' = hist[1].args
    /\ IF call' = "calculate_block_occupancy"
       THEN /\ out' = [j \in 1..Len(args'.block_positions) |-> <<NaN, NaN, NaN, NaN, NaN>>]
            /\ pending' = 0..(Len(args'.block_positions) - 1)
       ELSE /\ out' = FullNaN(Len(args'.x_pos))
            /\ pending' = 0..(Len(args'.x_pos) - 1)
    /\ pc' = "any"
    /\ UNCHANGED <<n_steps, i, s, v, a, F_trac, k, ret, hist>>

\* the body of `for k, xp in enumerate(x_pos)` of calculate_equivalent_slope
\* for any sample still to be computed
SlopeAnyStep ==
    /\ call = "calculate_equivalent_slope"
    /\ pc = "any"
    /\ \E kk \in pending :
          /\ k' = kk
          /\ IF ReadsBeyond(args.lutning, args.lutning_pos,
                            At(args.x_pos, kk) - args.train_length, At(args.x_pos, kk))
             THEN pc' = "error" /\ UNCHANGED <<out, pending>>
             ELSE /\ out' = Put(out, kk, SlopeEntry(args, out, kk))
                  /\ pending' = pending \ {kk}
                  /\ pc' = pc
    /\ args' = Stored(args, SlopeBuffer, out')
    /\ UNCHANGED <<call, n_steps, i, s, v, a, F_trac, ret, hist>>

\* the body of `for k, xp in enumerate(x_pos)` of calculate_curve_resistance
\* for any sample still to be computed
CurveAnyStep ==
    /\ call = "calculate_curve_resistance"
    /\ pc = "any"
    /\ \E kk \in pending :
          /\ k' = kk
          /\ IF ReadsBeyond(args.curve_radius, args.curve_pos,
                            At(args.x_pos, kk) - args.train_length, At(args.x_pos, kk))
             THEN pc' = "error" /\ UNCHANGED <<out, pending>>
             ELSE /\ out' = Put(out, kk, CurveEntry(args, out, kk))
                  /\ pending' = pending \ {kk}
                  /\ pc' = pc
    /\ args' = Stored(args, CurveBuffer, out')
    /\ UNCHANGED <<call, n_steps, i, s, v, a, F_trac, ret, hist>>

\* the body of `for k, bp in enumerate(block_positions)` for any block still
\* to be computed
BlockAnyStep ==
    /\ call = "calculate_block_occupancy"
    /\ pc = "any"
    /\ \E kk \in pending :
          /\ k' = kk
          /\ IF BlkRaises(args, kk)
             THEN pc' = "error" /\ UNCHANGED <<out, pending>>
             ELSE /\ out' = Put(out, kk, BlkRow(args, kk))
                  /\ pending' = pending \ {kk}
                  /\ pc' = pc
    /\ UNCHANGED <<call, args, n_steps, i, s, v, a, F_trac, ret, hist>>

\* every entry is computed: the result array is returned
AnyOrderReturn ==
    /\ pc = "any"
    /\ pending = {}
    /\ ret' = out
    /\ pc' = "done"
    /\ UNCHANGED <<call, args, n_steps, i, s, v, a, F_trac, k, out, hist, pending>>

NextAnyOrder ==
    \/ StartSequential
    \/ StartAnyOrder
    \/ SlopeEnter
    \/ SlopeStep
    \/ SlopeReturn
    \/ CurveEnter
    \/ CurveStep
    \/ CurveReturn
    \/ BlockEnter
    \/ BlockStep
    \/ BlockReturn
    \/ SlopeAnyStep
    \/ CurveAnyStep
    \/ BlockAnyStep
    \/ AnyOrderReturn
    \/ LogResult

SpecAnyOrder == InitAnyOrder /\ [][NextAnyOrder]_vars

----------------------------------------------------------------------------
(* Both integrators *)

InitInt == InitAcc \/ InitBrk

NextInt == AccStep \/ AccReturn \/ BrkStep \/ BrkReturn

SpecInt == InitInt /\ [][NextInt]_vars

----------------------------------------------------------------------------
(* One call of any kernel routine *)

Init == InitAcc \/ InitBrk \/ InitSlope \/ InitCurve

Next ==
    \/ AccStep \/ AccReturn
    \/ BrkStep \/ BrkReturn
    \/ SlopeStep \/ SlopeReturn
    \/ CurveStep \/ CurveReturn

Spec == Init /\ [][Next]_vars

----------------------------------------------------------------------------
(* Properties of the integrators *)

Returned == pc = "done"

\* number of entries of the returned profile
RetLen == Len(ret.speed)

\* C1: in the profile returned by calculate_acceleration_profile every speed
\* lies in [0, v_max].
C1_SpeedWithinCap ==
    Returned => \A j \in 1..Len(ret.speed) :
                    0 <= ret.speed[j] /\ ret.speed[j] <= args.v_max

\* a returned run in which the cap was active: the Euler step from index j-1
\* would have exceeded v_max and the speed is v_max
C1_Witness ==
    /\ Returned
    /\ args.v_max > 0
    /\ \E j \in 2..RetLen :
          /\ ret.speed[j] = args.v_max
          /\ ret.speed[j - 1] + Mul(ret.acceleration[j], args.dt) > args.v_max

C3_SpeedNonIncreasing ==
    Returned => \A j \in 2..RetLen :
                    0 <= ret.speed[j] /\ ret.speed[j] <= ret.speed[j - 1]

\* a braking run whose speed strictly decays over several steps
C3_Witness ==
    /\ Returned
    /\ RetLen >= 4
    /\ \A j \in 2..RetLen : ret.speed[j] < ret.speed[j - 1]

\* C4: the returned distance array of either integrator starts at 0 and is
\* non-decreasing.
C4_DistanceMonotone ==
    Returned => /\ ret.distance[1] = 0
                /\ \A j \in 2..Len(ret.distance) : ret.distance[j] >= ret.distance[j - 1]

\* an acceleration run that moved forward over several steps
C4_Witness ==
    /\ Returned
    /\ call = "calculate_acceleration_profile"
    /\ Len(ret.distance) >= 4
    /\ \A j \in 2..Len(ret.distance) : ret.distance[j] > ret.distance[j - 1]

\* the arrays of the returned profile
RetArrays ==
    IF call = "calculate_acceleration_profile"
    THEN {ret.distance, ret.speed, ret.acceleration, ret.tractive_effort}
    ELSE {ret.distance, ret.speed, ret.deceleration}

\* the loop left by `break` at index i (the range was not exhausted)
StopFired == Returned /\ i < n_steps

\* C5: all returned arrays have one length L with 1 <= L <= floor(distance/dt)+1,
\* and L is below the requested step count exactly when the stop condition
\* fired before the last requested step.
C5_ProfileLength ==
    /\ (Lit(100000) \div Lit(100)) + 1 = 1001
    /\ Returned =>
         LET requested == (args.distance \div args.dt) + 1
         IN  /\ \A arr \in RetArrays : Len(arr) = RetLen
             /\ 1 <= RetLen
             /\ RetLen <= requested
             /\ n_steps = requested
             /\ (RetLen < requested) <=> (StopFired /\ i < requested - 1)

\* a run stopped at exactly the last requested step: nothing is cut off
C5_Witness ==
    /\ StopFired
    /\ n_steps >= 3
    /\ i = n_steps - 1
    /\ RetLen = n_steps

\* C6: the acceleration profile keeps the first step that reaches the target
\* and nothing after it; a profile that never reaches the target is complete.
C6_AccStopsAtTarget ==
    Returned =>
        /\ \A j \in 1..(RetLen - 1) : ret.distance[j] < args.distance
        /\ (RetLen < n_steps) => ret.distance[RetLen] >= args.distance
        /\ (\A j \in 1..RetLen : ret.distance[j] < args.distance) => RetLen = n_steps

\* an acceleration run cut short at the step that reached the target
C6_Witness ==
    /\ Returned
    /\ RetLen >= 3
    /\ RetLen < n_steps
    /\ ret.distance[RetLen] >= args.distance

\* C7: the braking profile keeps the first step i >= 1 with speed <= 0 or
\* distance >= target and nothing after it.
C7_BrkStopsAtFirstHit ==
    Returned =>
        /\ \A j \in 2..(RetLen - 1) :
              ret.speed[j] > 0 /\ ret.distance[j] < args.distance
        /\ (RetLen < n_steps) =>
              (ret.speed[RetLen] <= 0 \/ ret.distance[RetLen] >= args.distance)

\* a braking run cut short by reaching the target distance while still moving
C7_Witness ==
    /\ Returned
    /\ RetLen >= 3
    /\ RetLen < n_steps
    /\ ret.speed[RetLen] > 0
    /\ ret.distance[RetLen] >= args.distance

----------------------------------------------------------------------------
(* Properties of the interval calculators *)

\* the intervals j (0-based) with (xp - train_length) < positions[j+1] and
\* xp >= positions[j]
Occupied(breaks, xp, len) ==
    {j \in 0..(Len(breaks) - 2) : xp - len < breaks[j + 2] /\ xp >= breaks[j + 1]}

\* the occupied length credited to interval j of the set J: the first interval
\* clipped at xp - train_length, the last at xp, a middle one in full
OccupiedLength(breaks, xp, len, J, j) ==
    IF \A j2 \in J : j <= j2 THEN breaks[j + 2] - (xp - len)
    ELSE IF \A j2 \in J : j >= j2 THEN xp - breaks[j + 1]
    ELSE breaks[j + 2] - breaks[j + 1]

RECURSIVE WeightedSum(_, _, _, _, _, _)
\* the sum over j in Rest of values[j] * OccupiedLength(j)
WeightedSum(breaks, values, xp, len, J, Rest) ==
    IF Rest = {} THEN RInt(0)
    ELSE LET j == CHOOSE x \in Rest : TRUE
         IN  RAdd(RMul(values[j + 1], RInt(OccupiedLength(breaks, xp, len, J, j))),
                  WeightedSum(breaks, values, xp, len, J, Rest \ {j}))

\* the equivalent slope of one sample as C8 states it
ClaimedSlope(breaks, values, xp, len) ==
    LET J == Occupied(breaks, xp, len)
    IN  IF J = {} THEN NaN
        ELSE IF Cardinality(J) = 1 THEN values[(CHOOSE j \in J : TRUE) + 1]
        ELSE RDiv(WeightedSum(breaks, values, xp, len, J, J), RInt(len))

\* C8: calculate_equivalent_slope returns one value per sample: the value of
\* the single overlapped interval, the occupied-length weighted sum of the
\* overlapped intervals divided by train_length, or NaN without overlap; the
\* test profile yields 5 values, none of them NaN.
C8_EquivalentSlope ==
    Returned =>
        /\ Len(ret) = Len(args.x_pos)
        /\ \A n \in 1..Len(ret) :
              ret[n] = ClaimedSlope(args.lutning_pos, args.lutning, args.x_pos[n],
                                    args.train_length)
        /\ (args = SlopeTestArgs) =>
              (Len(ret) = 5 /\ \A n \in 1..Len(ret) : ~IsNaN(ret[n]))

\* a returned call with a sample over at least three intervals (a middle
\* interval counted in full) and a sample without overlap
C8_Witness ==
    /\ Returned
    /\ \E n \in 1..Len(ret) :
          /\ Cardinality(Occupied(args.lutning_pos, args.x_pos[n], args.train_length)) >= 3
          /\ ~IsNaN(ret[n])
    /\ \E n \in 1..Len(ret) :
          /\ Occupied(args.lutning_pos, args.x_pos[n], args.train_length) = {}
          /\ IsNaN(ret[n])

\* C9: every equivalent slope is NaN or lies within [min(values), max(values)].
C9_SlopeWithinValues ==
    Returned =>
        \A n \in 1..Len(ret) :
            \/ IsNaN(ret[n])
            \/ /\ \E j \in 1..Len(args.lutning) : RLe(args.lutning[j], ret[n])
               /\ \E j \in 1..Len(args.lutning) : RLe(ret[n], args.lutning[j])

\* a returned call with a sample whose occupied span starts before the first
\* breakpoint and a sample whose span ends after the last one, each over
\* several intervals with a value strictly between two interval values
C9_Witness ==
    /\ Returned
    /\ \E n \in 1..Len(ret) :
          /\ args.x_pos[n] - args.train_length < args.lutning_pos[1]
          /\ Cardinality(Occupied(args.lutning_pos, args.x_pos[n], args.train_length)) >= 2
          /\ \E j \in 1..Len(args.lutning) : RLt(args.lutning[j], ret[n])
          /\ \E j \in 1..Len(args.lutning) : RLt(ret[n], args.lutning[j])
    /\ \E n \in 1..Len(ret) :
          /\ args.x_pos[n] > args.lutning_pos[Len(args.lutning_pos)]
          /\ Cardinality(Occupied(args.lutning_pos, args.x_pos[n], args.train_length)) >= 2
          /\ \E j \in 1..Len(args.lutning) : RLt(args.lutning[j], ret[n])
          /\ \E j \in 1..Len(args.lutning) : RLt(ret[n], args.lutning[j])

\* C10 (as claimed): every curve resistance is NaN or lies within
\* [min(values), max(values)] of the profile's values, the curve radii.
C10_ResistanceWithinRadii ==
    Returned =>
        \A n \in 1..Len(ret) :
            \/ IsNaN(ret[n])
            \/ /\ \E j \in 1..Len(args.curve_radius) : RLe(RInt(args.curve_radius[j]), ret[n])
               /\ \E j \in 1..Len(args.curve_radius) : RLe(ret[n], RInt(args.curve_radius[j]))

\* the force of interval j alone: unit_resistance(radius_j) * mass_kg
IntervalForce(j) ==
    RMul(IF args.curve_radius[j] < 300
         THEN Rat(491, 100 * (args.curve_radius[j] - 30))
         ELSE Rat(63, 10 * (args.curve_radius[j] - 55)),
         RInt(args.train_mass))

\* C10 (amended): every curve resistance is NaN or lies within the range of the
\* profile's per-interval forces unit_resistance(radius_j) * mass_kg.
C10_ResistanceWithinForces ==
    Returned =>
        \A n \in 1..Len(ret) :
            \/ IsNaN(ret[n])
            \/ /\ \E j \in 1..Len(args.curve_radius) : RLe(IntervalForce(j), ret[n])
               /\ \E j \in 1..Len(args.curve_radius) : RLe(ret[n], IntervalForce(j))

\* a returned call with a sample over several intervals of different radii,
\* whose resistance lies strictly between two per-interval forces
C10_Witness ==
    /\ Returned
    /\ \E n \in 1..Len(ret) :
          /\ Cardinality(Occupied(args.curve_pos, args.x_pos[n], args.train_length)) >= 2
          /\ \E j \in 1..Len(args.curve_radius) : RLt(IntervalForce(j), ret[n])
          /\ \E j \in 1..Len(args.curve_radius) : RLt(ret[n], IntervalForce(j))

\* the per-interval forces of the profile: unit_resistance(radius_j) * mass_kg
IntervalForces == [j \in 1..Len(args.curve_radius) |-> IntervalForce(j)]

\* the sum over the intervals under sample n of IntervalForce(j) times the
\* absolute length of the occupied span inside interval j
ForceLengthSum(n) ==
    LET J == Occupied(args.curve_pos, args.x_pos[n], args.train_length)
    IN  WeightedSum(args.curve_pos, IntervalForces, args.x_pos[n], args.train_length, J, J)

\* C11 (as claimed): over several intervals the curve resistance is the sum of
\* unit_resistance(r_j) * mass_kg weighted by the absolute occupied length
\* inside interval j, not divided by the total occupied length.
C11_SumNotNormalised ==
    Returned =>
        \A n \in 1..Len(ret) :
            Cardinality(Occupied(args.curve_pos, args.x_pos[n], args.train_length)) >= 2 =>
                ret[n] = ForceLengthSum(n)

\* C11 (amended): over several intervals the curve resistance is that
\* length-weighted sum divided by the total occupied length, train_length,
\* as in the slope calculator.
C11_SumNormalised ==
    Returned =>
        \A n \in 1..Len(ret) :
            Cardinality(Occupied(args.curve_pos, args.x_pos[n], args.train_length)) >= 2 =>
                ret[n] = RDiv(ForceLengthSum(n), RInt(args.train_length))

\* a returned call with a sample over several intervals of different radii and
\* an occupied length above 1, where dividing changes the value
C11_Witness ==
    /\ Returned
    /\ args.train_length >= 2
    /\ \E n \in 1..Len(ret) :
          LET J == Occupied(args.curve_pos, args.x_pos[n], args.train_length)
          IN  /\ Cardinality(J) >= 2
              /\ \E j1, j2 \in J : args.curve_radius[j1 + 1] # args.curve_radius[j2 + 1]
              /\ ret[n] # ForceLengthSum(n)
              /\ ~IsNaN(ret[n])

\* C12: a sample over exactly one interval of radius r gets
\* unit_resistance(r) * mass_kg, with 4.91/(r-30) for r < 300 and 6.3/(r-55)
\* otherwise; a sample without overlap gets NaN; with mass_kg > 0 and every
\* radius > 30 each defined result is >= 0, and the test profile's results
\* are all >= 0.
C12_SingleIntervalForce ==
    Returned =>
        /\ \A n \in 1..Len(ret) :
              LET J == Occupied(args.curve_pos, args.x_pos[n], args.train_length)
              IN  /\ J = {} => IsNaN(ret[n])
                  /\ Cardinality(J) = 1 => ret[n] = IntervalForce((CHOOSE j \in J : TRUE) + 1)
        /\ (/\ args.train_mass > 0
            /\ \A j \in 1..Len(args.curve_radius) : args.curve_radius[j] > 30) =>
              \A n \in 1..Len(ret) : IsNaN(ret[n]) \/ RLe(RInt(0), ret[n])
        /\ (args = CurveTestArgs) =>
              \A n \in 1..Len(ret) : ~IsNaN(ret[n]) /\ RLe(RInt(0), ret[n])

\* a returned call with a sample inside one interval of radius 300, the first
\* radius of the wide-curve formula, and a sample without overlap
C12_Witness ==
    /\ Returned
    /\ \E n \in 1..Len(ret) :
          LET J == Occupied(args.curve_pos, args.x_pos[n], args.train_length)
          IN  /\ Cardinality(J) = 1
              /\ \A j \in J : args.curve_radius[j + 1] = 300
              /\ ret[n] = RMul(Rat(63, 2450), RInt(args.train_mass))
    /\ \E n \in 1..Len(ret) :
          /\ Occupied(args.curve_pos, args.x_pos[n], args.train_length) = {}
          /\ IsNaN(ret[n])

----------------------------------------------------------------------------
(* Properties of the block occupancy routine *)

BlockCall == call = "calculate_block_occupancy"

\* idx lies within the bounds 0..len(time_profile)-1 of the time profile
InProfile(idx) == idx >= 0 /\ idx < Len(args.time_profile)

\* the fields of the record of block kk (1-based)
RecSpeedDiff(kk) == ret[kk][1]
RecIndex(kk) == ret[kk][2]
RecBooking(kk) == ret[kk][3]
RecArrival(kk) == ret[kk][4]
RecRelease(kk) == ret[kk][5]

\* C13: the routine returns one occupancy record per block, in input order;
\* the arrival time of each record is time_profile[bp] when the block
\* position bp is a valid index of time_profile and NaN otherwise.
C13_ArrivalPerBlock ==
    BlockCall =>
        /\ pc # "error"
        /\ Returned =>
              /\ Len(ret) = Len(args.block_positions)
              /\ \A kk \in 1..Len(ret) :
                    LET bp == args.block_positions[kk]
                    IN  RecArrival(kk) =
                            IF InProfile(bp) THEN args.time_profile[bp + 1] ELSE NaN

\* the 0-based indices whose speed is within v_tol of the release speed of block kk
SpeedMatches(kk) ==
    {b \in 0..(Len(args.speed_profile) - 1) :
        RLe(RAbs(RSub(args.speed_profile[b + 1], args.release_speed[kk])), args.v_tol)}

\* C14: with b the smallest index whose speed is within v_tol of the block's
\* release speed, booking = time_profile[b] - setting_time[k] and the record
\* holds that speed difference and b; without such an index booking =
\* time_profile[bp] - reserve_before_arrival when bp is a valid index and NaN
\* when it is not, and the speed-difference and index fields stay NaN.
C14_BookingRule ==
    (BlockCall /\ Returned) =>
        \A kk \in 1..Len(ret) :
            LET bp == args.block_positions[kk]
                M  == SpeedMatches(kk)
                b  == CHOOSE x \in M : \A y \in M : x <= y
            IN  IF M # {}
                THEN /\ RecBooking(kk) = RSub(args.time_profile[b + 1], args.setting_time[kk])
                     /\ RecSpeedDiff(kk) = RAbs(RSub(args.speed_profile[b + 1], args.release_speed[kk]))
                     /\ RecIndex(kk) = RInt(b)
                ELSE /\ RecBooking(kk) =
                            IF InProfile(bp)
                            THEN RSub(args.time_profile[bp + 1], args.reserve_before_arrival)
                            ELSE NaN
                     /\ IsNaN(RecSpeedDiff(kk))
                     /\ IsNaN(RecIndex(kk))

\* C15: with r = bp + round(train_length) + overlap[k], the release time is
\* time_profile[r] + release_time[k] when r is a valid index of time_profile
\* and NaN otherwise.
C15_ReleaseRule ==
    (BlockCall /\ Returned) =>
        \A kk \in 1..Len(ret) :
            LET r == args.block_positions[kk] + PyRound(args.train_length)
                     + PyInt(args.overlap[kk])
            IN  RecRelease(kk) =
                    IF InProfile(r)
                    THEN RAdd(args.time_profile[r + 1], args.release_time[kk])
                    ELSE NaN

\* C16: no out-of-range access: an index used to read time_profile (the block
\* position, the release index, the fallback booking position, the matched
\* speed index) that lies below 0 or at or above len(time_profile) gives NaN
\* in the field it feeds, never an error or a value read elsewhere.
C16_NoOutOfRangeAccess ==
    BlockCall =>
        /\ pc # "error"
        /\ Returned =>
              \A kk \in 1..Len(ret) :
                  LET bp == args.block_positions[kk]
                      r  == bp + PyRound(args.train_length) + PyInt(args.overlap[kk])
                      M  == SpeedMatches(kk)
                  IN  /\ ~InProfile(bp) => IsNaN(RecArrival(kk))
                      /\ ~InProfile(r) => IsNaN(RecRelease(kk))
                      /\ (M = {} /\ ~InProfile(bp)) => IsNaN(RecBooking(kk))
                      /\ (M # {} /\ \A b \in M : ~InProfile(b)) => IsNaN(RecBooking(kk))

----------------------------------------------------------------------------
(* Properties of the argument checks *)

\* C17: with mass_kg <= 0, tractive_effort_n <= 0 or dt <= 0 the acceleration
\* integrator (or the TrainConfig construction that feeds it) fails with an
\* error before the first step is computed, and no profile is returned.
C17_AccRejectsInvalid ==
    (/\ call = "calculate_acceleration_profile"
     /\ (args.mass_kg <= 0 \/ args.tractive_effort_n <= 0 \/ args.dt <= 0)) =>
        pc \in {"construct", "entry", "error"}

\* C18: with min_dec >= 0, max_dec >= 0, min_dec > max_dec or dt <= 0 the
\* braking integrator fails with an error before any step is integrated, and
\* no profile is returned.
C18_BrkRejectsInvalid ==
    (/\ call = "calculate_braking_profile"
     /\ \/ args.min_dec >= 0
        \/ args.max_dec >= 0
        \/ args.min_dec > args.max_dec
        \/ args.dt <= 0) =>
        pc \in {"entry", "error"}

\* the breakpoints are strictly increasing
StrictlyIncreasing(breaks) == \A j \in 1..(Len(breaks) - 1) : breaks[j] < breaks[j + 1]

\* the profile of the running interval calculation: breakpoints and values
ProfileBreaks == IF call = "calculate_equivalent_slope" THEN args.lutning_pos ELSE args.curve_pos
ProfileValues == IF call = "calculate_equivalent_slope" THEN args.lutning ELSE args.curve_radius

\* C19: both interval calculators reject a malformed profile: with breakpoints
\* that are not strictly increasing, or len(values) # len(positions) - 1, the
\* call fails with an error and returns no result array.
C19_RejectsMalformedProfile ==
    (/\ call \in {"calculate_equivalent_slope", "calculate_curve_resistance"}
     /\ \/ ~StrictlyIncreasing(ProfileBreaks)
        \/ Len(ProfileValues) # Len(ProfileBreaks) - 1) =>
        pc # "done"

----------------------------------------------------------------------------
(* Properties of a sequence of calls *)

\* two finished calls gave the same outcome: both raised, or both returned
\* equal values
SameOutcome(h1, h2) ==
    /\ h1.raised = h2.raised
    /\ ~h1.raised => h1.value = h2.value

\* C20: two calls of the same routine with identical inputs give identical
\* outputs, whatever calls were made before or between them.
C20_Deterministic ==
    \A m, n \in 1..Len(hist) :
        (hist[m].call = hist[n].call /\ hist[m].args = hist[n].args) =>
            SameOutcome(hist[m], hist[n])

\* three finished calls of the slope calculator over the same samples: the
\* first and the third with identical inputs and a NaN sample, the second
\* with another profile that covers every sample
C20_Witness ==
    /\ Len(hist) = 3
    /\ \A n \in 1..3 : hist[n].call = "calculate_equivalent_slope" /\ ~hist[n].raised
    /\ hist[1].args = hist[3].args
    /\ hist[2].args # hist[1].args
    /\ \E n \in 1..Len(hist[1].value) : IsNaN(hist[1].value[n])
    /\ \A n \in 1..Len(hist[2].value) : ~IsNaN(hist[2].value[n])
    /\ hist[1].value = hist[3].value

----------------------------------------------------------------------------
(* Properties of the integrators' step rules *)

\* the resistance the claim names, at the speed vp of the previous index
ClaimedResistance(vp) ==
    args.A + Mul(args.B, vp) + Mul(args.C, Mul(vp, vp))
        + Mul(Mul(args.mass_kg, g), Div(args.slope_percent, 100 * SCALE))
        + Mul(args.tunnel_factor, Mul(vp, vp)) + args.curve_resistance

\* clamp(x, lo, hi)
Clamp(x, lo, hi) == IF x < lo THEN lo ELSE IF x > hi THEN hi ELSE x

\* C23: at every produced index i >= 1 of an acceleration profile,
\* tractive_effort[i] = min(tractive_effort_n, adhesion_coef * mass * g),
\* acceleration[i] is (tractive_effort[i] - resistance(v[i-1])) / mass clamped
\* to [-max_acc, max_acc], speed[i] = clamp(speed[i-1] + acceleration[i] * dt,
\* 0, v_max), distance[i] = distance[i-1] + speed[i] * dt, and
\* |acceleration[i]| <= max_acc.
C23_AccStepRule ==
    (Returned /\ call = "calculate_acceleration_profile") =>
        \A n \in 2..RetLen :
            LET vp == ret.speed[n - 1]
                ft == Min(args.tractive_effort_n, Mul(Mul(args.adhesion_coef, args.mass_kg), g))
            IN  /\ ret.tractive_effort[n] = ft
                /\ ret.acceleration[n] =
                      Clamp(Div(ft - ClaimedResistance(vp), args.mass_kg),
                            -args.max_acc, args.max_acc)
                /\ ret.speed[n] = Clamp(vp + Mul(ret.acceleration[n], args.dt), 0, args.v_max)
                /\ ret.distance[n] = ret.distance[n - 1] + Mul(ret.speed[n], args.dt)
                /\ ret.acceleration[n] <= args.max_acc
                /\ -ret.acceleration[n] <= args.max_acc

\* a returned acceleration profile with a tunnel term, one index where the
\* clamp to max_acc is active and one where the acceleration is below it
C23_Witness ==
    /\ Returned
    /\ call = "calculate_acceleration_profile"
    /\ args.tunnel_factor > 0
    /\ RetLen >= 3
    /\ \E n \in 2..RetLen : ret.acceleration[n] = args.max_acc
    /\ \E n \in 2..RetLen : ret.acceleration[n] < args.max_acc /\ ret.speed[n - 1] > 0

\* the slope the claim names for produced index ii: slope_profile[ii-1], or 0
\* when no slope profile is supplied
ClaimedBrkSlope(ii) ==
    IF args.slope_profile.none THEN 0 ELSE args.slope_profile.arr[ii]

\* C24: at every produced index i >= 1 of a braking profile, deceleration[i]
\* = clamp(deceleration_profile + g * slope_profile[i-1], min_dec, max_dec),
\* with slope 0 without a slope profile, so min_dec <= deceleration[i] <=
\* max_dec, and speed[i] = max(0, speed[i-1] + deceleration[i] / max((speed[i-1]
\* + sqrt(max(0, 2 * deceleration[i] + speed[i-1]^2))) / 2, 1e-6)).
C24_BrkStepRule ==
    (Returned /\ call = "calculate_braking_profile") =>
        \A n \in 2..RetLen :
            LET vp  == ret.speed[n - 1]
                dec == ret.deceleration[n]
                v2  == (vp + Sqrt(Max(0, 2 * dec + Mul(vp, vp)))) \div 2
            IN  /\ dec = Clamp(args.deceleration_profile + Mul(args.g, ClaimedBrkSlope(n - 1)),
                               args.min_dec, args.max_dec)
                /\ args.min_dec <= dec
                /\ dec <= args.max_dec
                /\ ret.speed[n] = Max(0, vp + (IF v2 > 0 THEN Div(dec, v2) ELSE dec * InvEps))

\* a returned braking profile over a slope profile whose first two entries
\* differ, with one deceleration at min_dec and one at max_dec
C24_Witness ==
    /\ Returned
    /\ call = "calculate_braking_profile"
    /\ ~args.slope_profile.none
    /\ RetLen >= 3
    /\ args.slope_profile.arr[1] # args.slope_profile.arr[2]
    /\ \E n \in 2..RetLen : ret.deceleration[n] = args.min_dec
    /\ \E n \in 2..RetLen : ret.deceleration[n] = args.max_dec

\* the available traction does not exceed the resistance at rest
\* A + mass*g*slope_percent/100 + curve_resistance
Stalled ==
    Min(args.tractive_effort_n, Mul(Mul(args.adhesion_coef, args.mass_kg), g))
        <= args.A + SlopeForce(args.mass_kg, args.slope_percent) + args.curve_resistance

\* C29: a stalled train (available traction not above the resistance at rest)
\* gets speed 0 and distance 0 at every index, the full profile of
\* floor(distance/dt)+1 entries is returned, and for distance > 0 no entry
\* reaches the target distance.
C29_StalledTrain ==
    (Returned /\ call = "calculate_acceleration_profile" /\ Stalled) =>
        /\ RetLen = (args.distance \div args.dt) + 1
        /\ Len(ret.distance) = RetLen
        /\ \A n \in 1..RetLen : ret.speed[n] = 0 /\ ret.distance[n] = 0
        /\ args.distance > 0 => \A n \in 1..RetLen : ret.distance[n] < args.distance

\* a stalled train with a speed cap above zero whose profile of several
\* entries was returned, the net force being negative
C29_Witness ==
    /\ Returned
    /\ call = "calculate_acceleration_profile"
    /\ Stalled
    /\ args.v_max > 0
    /\ args.distance > 0
    /\ RetLen >= 4
    /\ ret.acceleration[RetLen] < 0

\* C30: a curve-resistance sample that overlaps several intervals with
\* train_length > 0 lies between the smallest and the largest per-interval
\* force unit_resistance(r_j) * mass_kg of the overlapped intervals, and equals
\* the single-interval force when all overlapped intervals have the same radius.
C30_AverageOfOverlapped ==
    (Returned /\ call = "calculate_curve_resistance") =>
        \A n \in 1..Len(ret) :
            LET J == Occupied(args.curve_pos, args.x_pos[n], args.train_length)
            IN  (Cardinality(J) >= 2 /\ args.train_length > 0) =>
                    /\ \E j \in J : RLe(IntervalForce(j + 1), ret[n])
                    /\ \E j \in J : RLe(ret[n], IntervalForce(j + 1))
                    /\ \A j \in J :
                          (\A j2 \in J : args.curve_radius[j2 + 1] = args.curve_radius[j + 1])
                              => ret[n] = IntervalForce(j + 1)

\* a returned call with one sample over several intervals of one radius while
\* the profile has another radius too, and one sample strictly between the
\* forces of two intervals it overlaps
C30_Witness ==
    /\ Returned
    /\ call = "calculate_curve_resistance"
    /\ args.train_length > 0
    /\ \E n \in 1..Len(ret) :
          LET J == Occupied(args.curve_pos, args.x_pos[n], args.train_length)
          IN  /\ Cardinality(J) >= 2
              /\ \A j1, j2 \in J : args.curve_radius[j1 + 1] = args.curve_radius[j2 + 1]
              /\ \E j \in 1..Len(args.curve_radius) : j - 1 \notin J
                    /\ args.curve_radius[j] # args.curve_radius[(CHOOSE j1 \in J : TRUE) + 1]
    /\ \E n \in 1..Len(ret) :
          LET J == Occupied(args.curve_pos, args.x_pos[n], args.train_length)
          IN  /\ Cardinality(J) >= 2
              /\ \E j \in J : RLt(IntervalForce(j + 1), ret[n])
              /\ \E j \in J : RLt(ret[n], IntervalForce(j + 1))

\* time_profile is non-decreasing
NonDecreasingTime ==
    \A j \in 1..(Len(args.time_profile) - 1) :
        RLe(args.time_profile[j], args.time_profile[j + 1])

\* every entry of arr is >= 0
NonNegative(arr) == \A j \in 1..Len(arr) : RLe(RInt(0), arr[j])

C26_ArrivalBeforeRelease ==
    (/\ BlockCall
     /\ Returned
     /\ NonDecreasingTime
     /\ RLe(RInt(0), args.train_length)
     /\ NonNegative(args.overlap)
     /\ NonNegative(args.release_time)) =>
        \A kk \in 1..Len(ret) :
            /\ (~IsNaN(RecArrival(kk)) /\ ~IsNaN(RecRelease(kk))) =>
                  RLe(RecArrival(kk), RecRelease(kk))
            /\ ~IsNaN(RecRelease(kk)) => ~IsNaN(RecArrival(kk))

----------------------------------------------------------------------------
(* Properties of pairs of calls *)

\* C27: calculate_block_occupancy does not depend on position_profile: two
\* calls that differ only in the position_profile argument have the same
\* outcome and return the same records.
C27_IgnoresPositionProfile ==
    \A m, n \in 1..Len(hist) :
        (/\ hist[m].call = "calculate_block_occupancy"
         /\ hist[n].call = "calculate_block_occupancy"
         /\ [hist[m].args EXCEPT !.position_profile = hist[n].args.position_profile]
                = hist[n].args) =>
            SameOutcome(hist[m], hist[n])

\* two finished calls with different position profiles, the second placing
\* the samples at other positions than the block positions index, both
\* returning the same records with a defined arrival time
C27_Witness ==
    /\ Len(hist) = 2
    /\ hist[1].call = "calculate_block_occupancy"
    /\ hist[2].call = "calculate_block_occupancy"
    /\ hist[1].args.position_profile # hist[2].args.position_profile
    /\ hist[1].args.block_positions = hist[2].args.block_positions
    /\ ~hist[1].raised
    /\ ~hist[2].raised
    /\ hist[1].value = hist[2].value
    /\ \E kk \in 1..Len(hist[1].value) :
          /\ ~IsNaN(hist[1].value[kk][4])
          /\ hist[1].args.block_positions[kk] > 0

\* the final produced index of the finished braking call h
LastIndex(h) == Len(h.value.speed) - 1

\* the slope profiles of the finished calls h1 and h2 both have entries at the
\* indices 0 .. n-1 and agree there
AgreeBelow(h1, h2, n) ==
    \A j \in 1..n :
        /\ j <= Len(h1.args.slope_profile.arr)
        /\ j <= Len(h2.args.slope_profile.arr)
        /\ h1.args.slope_profile.arr[j] = h2.args.slope_profile.arr[j]

\* C28: calculate_braking_profile reads slope_profile only at the indices
\* 0 .. last-1, last being the final produced index: with a slope profile of
\* at least floor(distance/dt) entries no read is out of range, whatever the
\* initial speed, and two calls whose slope profiles agree below last return
\* the same result, whatever the entries at the indices >= last are.
C28_SlopeReadsBelowLast ==
    /\ (/\ call = "calculate_braking_profile"
        /\ ~args.slope_profile.none
        /\ Len(args.slope_profile.arr) >= args.distance \div args.dt) =>
           pc # "error"
    /\ \A m, n \in 1..Len(hist) :
          (/\ hist[m].call = "calculate_braking_profile"
           /\ hist[n].call = "calculate_braking_profile"
           /\ [hist[m].args EXCEPT !.slope_profile = hist[n].args.slope_profile]
                 = hist[n].args
           /\ ~hist[m].raised
           /\ AgreeBelow(hist[m], hist[n], LastIndex(hist[m]))) =>
              SameOutcome(hist[m], hist[n])

\* two finished calls: the first runs to the last step over a slope profile of
\* exactly floor(distance/dt) entries, the second has one entry more at an
\* index that is never read, and both return the same profile
C28_Witness ==
    /\ Len(hist) = 2
    /\ ~hist[1].raised
    /\ ~hist[2].raised
    /\ hist[1].value = hist[2].value
    /\ hist[1].args.slope_profile # hist[2].args.slope_profile
    /\ LastIndex(hist[1]) >= 2
    /\ LastIndex(hist[1]) = hist[1].args.distance \div hist[1].args.dt
    /\ Len(hist[1].args.slope_profile.arr) = LastIndex(hist[1])
    /\ Len(hist[2].args.slope_profile.arr) = LastIndex(hist[1]) + 1

----------------------------------------------------------------------------
(* Properties of the routines' effect on their arguments *)

\* C21: no kernel routine changes its inputs: from the call to the return, and
\* until the caller makes the next call, the arguments (breakpoint, value,
\* sample, slope, speed, time and block arrays, TrainConfig fields) stay as
\* the caller passed them; the result is written to newly allocated arrays,
\* so no write to it shows in an argument.
C21_InputsUnchanged ==
    [][pc # "idle" => (args' = args /\ call' = call)]_vars

\* after an earlier braking call over a slope profile, a slope call has
\* written its result and returned it with the samples still as passed
C21_Witness ==
    /\ Len(hist) >= 1
    /\ hist[1].call = "calculate_braking_profile"
    /\ call = "calculate_equivalent_slope"
    /\ pc = "done"
    /\ \E n \in 1..Len(ret) : ~IsNaN(ret[n])
    /\ args \in SessionSlopeArgs

----------------------------------------------------------------------------
(* Properties of the order of the per-sample computations *)

====
